---------------------------- MODULE Spec2Model ----------------------------
(***************************************************************************)
(* OAuth2 provider variants of acebase-server (GitlabAuthProvider,         *)
(* GithubAuthProvider), the provider registry of oauth-providers/index     *)
(* and the GET /info/<dbname> route.                                       *)
(*                                                                         *)
(* JavaScript values are modelled as follows.  A string that the code only *)
(* copies is an atomic TLA+ string.  A string that the code builds or      *)
(* encodes (a URL, a request body) is a sequence of chunks: one chunk per  *)
(* character of a caller-supplied value, one chunk per literal of the      *)
(* template, one chunk per %XX escape.  undefined, null, true and false    *)
(* are the strings Undefined, Null, JTrue and JFalse, which no modelled    *)
(* payload uses as an ordinary string.  An optional property is a record   *)
(* [def, v]: def = FALSE is an undefined property.                         *)
(***************************************************************************)
EXTENDS Integers, Sequences, FiniteSets, TLC

VARIABLES
    provider,   \* which class the instance under study is: "gitlab" | "github"
    config,     \* this._config of the instance
    calls,      \* the async method calls made on the instance, by call id
    fetches,    \* network requests issued so far, by kind
    pc,         \* position of the single-function specifications
    arg,        \* input of the function under study
    ret,        \* what the function under study returned
    lookups     \* registry lookups made so far

vars == <<provider, config, calls, fetches, pc, arg, ret, lookups>>

Providers == {"gitlab", "github"}

(***************************************************************************)
(* Bounds of the model.                                                    *)
(***************************************************************************)
MaxScopes == 3
MaxUrlLen == 2
MaxCodeLen == 1
MaxFields == 3
MaxLookups == 3
MaxCalls == 2
MaxUnit == 1

(***************************************************************************)
(* JavaScript values.                                                      *)
(***************************************************************************)
Undefined == "undefined"
Null == "null"
JTrue == "true"
JFalse == "false"

\* ToBoolean of a modelled value: undefined, null, false and "" are falsy.
Truthy(v) == v \notin {Undefined, Null, JFalse, ""}

Some(v) == [def |-> TRUE, v |-> v]
None == [def |-> FALSE, v |-> <<>>]

\* Array.prototype.includes
Includes(list, x) == \E i \in 1..Len(list) : list[i] = x

\* All sequences over S of length at most n.
SeqsUpTo(S, n) == UNION {[1..k -> S] : k \in 0..n}

(***************************************************************************)
(* Constructors: the default scopes.                                       *)
(***************************************************************************)
ScopeNames == {"email", "profile", "openid", "read_user"}

PushAlways(scopes, s) == Append(scopes, s)

\* if (!settings.scopes.includes(s)) { settings.scopes.push(s); }
PushIfMissing(scopes, s) == IF Includes(scopes, s) THEN scopes ELSE Append(scopes, s)

\* if (!settings.scopes) { settings.scopes = []; }   (an array, even [], is truthy)
ScopesOrEmpty(settings) == IF settings.scopes.def THEN settings.scopes.v ELSE <<>>

GitlabConstructor(settings) ==
    LET s0 == ScopesOrEmpty(settings)
        s1 == PushIfMissing(s0, "email")
        s2 == PushIfMissing(s1, "profile")
        s3 == PushIfMissing(s2, "openid")
    IN  [settings EXCEPT !.scopes = Some(s3)]

GithubConstructor(settings) ==
    LET s0 == ScopesOrEmpty(settings)
        s1 == PushIfMissing(s0, "email")
        s2 == PushIfMissing(s1, "profile")
        s3 == PushIfMissing(s2, "openid")
    IN  [settings EXCEPT !.scopes = Some(s3)]

ScopeInputs == {None} \cup {Some(s) : s \in SeqsUpTo(ScopeNames, MaxScopes)}

\* Values of the variables a specification does not use.
IdleInstance ==
    /\ config = Undefined
    /\ calls = <<>>
    /\ fetches = [k \in {"discovery", "token", "userinfo", "revoke"} |-> 0]
IdleFunction ==
    /\ pc = "idle"
    /\ arg = <<>>
    /\ ret = <<>>
IdleRegistry == lookups = <<>>

InitCtor ==
    /\ provider \in Providers
    /\ pc = "ready"
    /\ arg \in {[client_id |-> "app", client_secret |-> "s3cret", scopes |-> sc] :
                    sc \in ScopeInputs}
    /\ ret = <<>>
    /\ IdleInstance
    /\ IdleRegistry

\* new GitlabAuthProvider(settings) / new GithubAuthProvider(settings)
Construct ==
    /\ pc = "ready"
    /\ ret' = IF provider = "gitlab" THEN GitlabConstructor(arg) ELSE GithubConstructor(arg)
    /\ pc' = "done"
    /\ UNCHANGED <<provider, config, calls, fetches, arg, lookups>>

NextCtor == Construct

SpecCtor == InitCtor /\ [][NextCtor]_vars

Count(list, x) == Cardinality({i \in 1..Len(list) : list[i] = x})

DefaultScopes == {"email", "profile", "openid"}

\* C10: after construction settings.scopes contains 'email', 'profile' and
\* 'openid'; the caller-supplied scopes are kept in their original order (they
\* are the leading part of the list); a default scope is added exactly when the
\* caller did not supply it, so no scope occurs more often than the caller
\* wrote it, or once if the caller did not write it.
C10_DefaultScopes ==
    pc = "done" =>
        LET given == IF arg.scopes.def THEN arg.scopes.v ELSE <<>>
            out == ret.scopes.v
        IN  /\ ret.scopes.def
            /\ \A s \in DefaultScopes : Includes(out, s)
            /\ Len(out) >= Len(given)
            /\ SubSeq(out, 1, Len(given)) = given
            /\ \A s \in ScopeNames :
                 Count(out, s) = IF s \in DefaultScopes /\ Count(given, s) = 0
                                 THEN 1
                                 ELSE Count(given, s)

\* A caller that supplied one default scope, twice, among others.
C10_Witness ==
    /\ pc = "done"
    /\ arg.scopes.def
    /\ arg.scopes.v = <<"openid", "read_user", "openid">>
    /\ ret.scopes.v = <<"openid", "read_user", "openid", "email", "profile">>

(***************************************************************************)
(* getUserInfo: normalization of the user-info payload.  A payload is a    *)
(* function from the keys of the JSON object to their values.              *)
(***************************************************************************)
\* user[key] of a JavaScript object: undefined for a key the object lacks.
Get(user, key) == IF key \in DOMAIN user THEN user[key] ELSE Undefined

\* Object.keys(user).filter(key => !excluded.includes(key)).reduce(...)
Other(user, excluded) == [k \in DOMAIN user \ excluded |-> user[k]]

GitlabFiltered == {"sub", "name", "picture", "email", "email_verified"}

GithubFiltered == {"sub", "name", "picture", "email_verified"}

GitlabPictureUnchecked(user) == <<[url |-> Get(user, "picture")]>>

\* picture: user.picture ? [{ url: user.picture }] : []
GitlabPicture(user) ==
    IF Truthy(Get(user, "picture")) THEN <<[url |-> Get(user, "picture")]>> ELSE <<>>

\* picture: user.avatar_url ? [{ url: user.avatar_url }] : []
GithubPicture(user) ==
    IF Truthy(Get(user, "avatar_url")) THEN <<[url |-> Get(user, "avatar_url")]>> ELSE <<>>

GitlabProfile(user) ==
    [id |-> Get(user, "sub"),
     name |-> Get(user, "name"),
     display_name |-> IF Truthy(Get(user, "nickname"))
                      THEN Get(user, "nickname")
                      ELSE Get(user, "name"),
     picture |-> GitlabPicture(user),
     email |-> Get(user, "email"),
     email_verified |-> Get(user, "email_verified"),
     other |-> Other(user, GitlabFiltered)]

GithubProfile(user) ==
    [id |-> Get(user, "id"),
     name |-> Get(user, "name"),
     display_name |-> Get(user, "name"),
     picture |-> GithubPicture(user),
     email |-> Get(user, "email"),
     email_verified |-> JTrue,
     other |-> Other(user, GithubFiltered)]

Profile(p, user) == IF p = "gitlab" THEN GitlabProfile(user) ELSE GithubProfile(user)

\* The payload keys the model draws from, and the values each may carry.
PayloadKeys ==
    {"sub", "id", "name", "nickname", "picture", "avatar_url", "email",
     "email_verified", "login"}

PayloadValues(k) ==
    CASE k = "sub" -> {"u-1"}
      [] k = "id" -> {"42"}
      [] k = "name" -> {"Ann Lee"}
      [] k = "nickname" -> {"", "ann"}
      [] k = "picture" -> {Null, "", "https://h/p.png"}
      [] k = "avatar_url" -> {"", "https://h/a.png"}
      [] k = "email" -> {"ann@h"}
      [] k = "email_verified" -> {JTrue, JFalse}
      [] OTHER -> {"annlee"}

PayloadsOver(D) == {u \in [D -> UNION {PayloadValues(k) : k \in D}] :
                        \A k \in D : u[k] \in PayloadValues(k)}

Payloads ==
    UNION {PayloadsOver(D) : D \in {E \in SUBSET PayloadKeys : Cardinality(E) <= MaxFields}}

InitProfile ==
    /\ provider \in Providers
    /\ pc = "ready"
    /\ arg \in Payloads
    /\ ret = <<>>
    /\ IdleInstance
    /\ IdleRegistry

\* The return statement of getUserInfo, reached with a 200 response.
NormalizeUser ==
    /\ pc = "ready"
    /\ ret' = Profile(provider, arg)
    /\ pc' = "done"
    /\ UNCHANGED <<provider, config, calls, fetches, arg, lookups>>

NextProfile == NormalizeUser

SpecProfile == InitProfile /\ [][NextProfile]_vars

\* The payload keys a provider reads to fill id, name, display_name, picture,
\* email and email_verified.
UsedKeys(p) ==
    IF p = "gitlab"
    THEN {"sub", "name", "nickname", "picture", "email", "email_verified"}
    ELSE {"id", "name", "avatar_url", "email"}

\* C5: every payload field that is not used to populate id, name,
\* display_name, picture, email or email_verified is in the profile's `other`
\* map under the same key with the same value.
C5_UnmappedPreserved ==
    pc = "done" =>
        \A k \in DOMAIN arg \ UsedKeys(provider) :
            k \in DOMAIN ret.other /\ ret.other[k] = arg[k]

\* C6: a profile field whose source is absent from the payload is absent or
\* empty in the profile, and email_verified is true only if the payload
\* carries a true email_verified and an email.
C6_AbsentStaysAbsent ==
    pc = "done" =>
        LET idKey == IF provider = "gitlab" THEN "sub" ELSE "id"
            avatarKey == IF provider = "gitlab" THEN "picture" ELSE "avatar_url"
            nameKeys == IF provider = "gitlab" THEN {"nickname", "name"} ELSE {"name"}
        IN  /\ idKey \notin DOMAIN arg => ret.id = Undefined
            /\ "name" \notin DOMAIN arg => ret.name = Undefined
            /\ nameKeys \cap DOMAIN arg = {} => ret.display_name = Undefined
            /\ avatarKey \notin DOMAIN arg => ret.picture = <<>>
            /\ "email" \notin DOMAIN arg => ret.email = Undefined
            /\ ret.email_verified = JTrue =>
                 /\ Get(arg, "email_verified") = JTrue
                 /\ "email" \in DOMAIN arg

\* C7: picture is the empty list when the payload has no avatar URL (the
\* field is missing, null or the empty string), and otherwise the list of
\* exactly one element {url} with the payload's avatar URL.
C7_Picture ==
    pc = "done" =>
        LET avatarKey == IF provider = "gitlab" THEN "picture" ELSE "avatar_url"
            hasAvatar == avatarKey \in DOMAIN arg /\ arg[avatarKey] \notin {Null, ""}
        IN  IF hasAvatar
            THEN /\ Len(ret.picture) = 1
                 /\ ret.picture[1] = [url |-> arg[avatarKey]]
            ELSE ret.picture = <<>>

\* Both cases have been normalized by the provider at hand: a payload with an
\* avatar URL here, and one whose avatar field is the empty string below.
C7_Witness ==
    /\ pc = "done"
    /\ provider = "gitlab"
    /\ "picture" \in DOMAIN arg
    /\ arg["picture"] = "https://h/p.png"
    /\ ret.picture = <<[url |-> "https://h/p.png"]>>

(***************************************************************************)
(* getAccessToken: the body of the token request.                          *)
(***************************************************************************)
\* Characters a redirect URL is drawn from, and those of an authorization
\* code or refresh token (opaque values issued by the provider, drawn from
\* unreserved characters only).
UrlChars == {"a", "/", "&", " "}
CodeChars == {"x", "y"}

EncodeNothing(c) == c

\* encodeURIComponent, one character: everything but A-Z a-z 0-9 - _ . ! ~ * ' ( )
\* becomes its %XX escape.
EncodeChar(c) ==
    CASE c = "/" -> "%2F"
      [] c = "&" -> "%26"
      [] c = " " -> "%20"
      [] c = "=" -> "%3D"
      [] c = ":" -> "%3A"
      [] c = "?" -> "%3F"
      [] OTHER -> c

encodeURIComponent(s) == [i \in 1..Len(s) |-> EncodeChar(s[i])]

\* body: `client_id=${...}&client_secret=${...}&code=` + (the branch on params.type)
GitlabTokenBody(settings, params) ==
    <<"client_id", "=">> \o settings.client_id
        \o <<"&", "client_secret", "=">> \o settings.client_secret
        \o <<"&", "code", "=">>
        \o (IF params.type = "refresh"
            THEN params.refresh_token \o <<"&", "grant_type", "=", "refresh_token">>
            ELSE params.auth_code
                    \o <<"&", "grant_type", "=", "authorization_code">>
                    \o <<"&", "redirect_uri", "=">>
                    \o encodeURIComponent(params.redirect_url))

GithubTokenBody(settings, params) ==
    <<"client_id", "=">> \o settings.client_id
        \o <<"&", "client_secret", "=">> \o settings.client_secret
        \o <<"&", "code", "=">>
        \o (IF params.type = "refresh"
            THEN params.refresh_token \o <<"&", "grant_type", "=", "refresh_token">>
            ELSE params.auth_code
                    \o <<"&", "redirect_uri", "=">>
                    \o encodeURIComponent(params.redirect_url))

TokenBody(p, settings, params) ==
    IF p = "gitlab" THEN GitlabTokenBody(settings, params)
    ELSE GithubTokenBody(settings, params)

AppSettings == [client_id |-> <<"app">>, client_secret |-> <<"s3cret">>]

NonEmptySeqsUpTo(S, n) == SeqsUpTo(S, n) \ {<<>>}

\* IOAuth2RefreshTokenParams | IOAuth2AuthCodeParams
TokenParams ==
    {[type |-> "refresh", refresh_token |-> t, auth_code |-> <<>>, redirect_url |-> <<>>] :
        t \in NonEmptySeqsUpTo(CodeChars, MaxCodeLen)}
    \cup
    {[type |-> "auth", refresh_token |-> <<>>, auth_code |-> c, redirect_url |-> u] :
        c \in NonEmptySeqsUpTo(CodeChars, MaxCodeLen), u \in SeqsUpTo(UrlChars, MaxUrlLen)}

InitToken ==
    /\ provider \in Providers
    /\ pc = "ready"
    /\ arg \in {[settings |-> AppSettings, params |-> ps] : ps \in TokenParams}
    /\ ret = <<>>
    /\ IdleInstance
    /\ IdleRegistry

\* getAccessToken up to the fetch of the token endpoint.
BuildTokenRequest ==
    /\ pc = "ready"
    /\ ret' = [method |-> "POST", body |-> TokenBody(provider, arg.settings, arg.params)]
    /\ pc' = "done"
    /\ UNCHANGED <<provider, config, calls, fetches, arg, lookups>>

NextToken == BuildTokenRequest

SpecToken == InitToken /\ [][NextToken]_vars

\* Reading an application/x-www-form-urlencoded body back, as the token
\* endpoint does: split on "&", then name "=" value.
RECURSIVE SplitOn(_, _)
SplitOn(s, sep) ==
    IF ~Includes(s, sep) THEN <<s>>
    ELSE LET i == CHOOSE i \in 1..Len(s) : s[i] = sep /\ \A j \in 1..(i - 1) : s[j] # sep
         IN  <<SubSeq(s, 1, i - 1)>> \o SplitOn(SubSeq(s, i + 1, Len(s)), sep)

FormFields(body) ==
    LET segs == SplitOn(body, "&")
    IN  {[name |-> segs[i][1], value |-> SubSeq(segs[i], 3, Len(segs[i]))] :
            i \in {j \in 1..Len(segs) : Len(segs[j]) >= 2 /\ segs[j][2] = "="}}

FieldNames(body) == {f.name : f \in FormFields(body)}

DecodeChar(c) ==
    CASE c = "%2F" -> "/"
      [] c = "%26" -> "&"
      [] c = "%20" -> " "
      [] c = "%3D" -> "="
      [] c = "%3A" -> ":"
      [] c = "%3F" -> "?"
      [] OTHER -> c

decodeURIComponent(s) == [i \in 1..Len(s) |-> DecodeChar(s[i])]

Reserved == {"/", "&", " ", "=", ":", "?"}

\* value is the URL-encoded form of url
IsEncodingOf(value, url) ==
    /\ \A i \in 1..Len(value) : value[i] \notin Reserved
    /\ decodeURIComponent(value) = url

\* What both shapes share, and the refresh shape.
TokenBodyCommon(body) ==
    /\ [name |-> "client_id", value |-> arg.settings.client_id] \in FormFields(body)
    /\ [name |-> "client_secret", value |-> arg.settings.client_secret] \in FormFields(body)
    /\ Len(SplitOn(body, "&")) = Cardinality(FieldNames(body))

RefreshShape(body) ==
    /\ [name |-> "code", value |-> arg.params.refresh_token] \in FormFields(body)
    /\ [name |-> "grant_type", value |-> <<"refresh_token">>] \in FormFields(body)
    /\ FieldNames(body) = {"client_id", "client_secret", "code", "grant_type"}

AuthCodeShape(body) ==
    /\ [name |-> "code", value |-> arg.params.auth_code] \in FormFields(body)
    /\ [name |-> "grant_type", value |-> <<"authorization_code">>] \in FormFields(body)
    /\ \E f \in FormFields(body) :
         f.name = "redirect_uri" /\ IsEncodingOf(f.value, arg.params.redirect_url)
    /\ FieldNames(body) = {"client_id", "client_secret", "code", "grant_type", "redirect_uri"}

\* The authorization-code request of the Github provider: no grant_type.
AuthCodeShapeNoGrant(body) ==
    /\ [name |-> "code", value |-> arg.params.auth_code] \in FormFields(body)
    /\ \E f \in FormFields(body) :
         f.name = "redirect_uri" /\ IsEncodingOf(f.value, arg.params.redirect_url)
    /\ FieldNames(body) = {"client_id", "client_secret", "code", "redirect_uri"}

\* C9 as claimed: in every provider the request for params.type = 'refresh'
\* carries the refresh token with grant_type=refresh_token and no redirect_uri,
\* and any other request carries the authorization code with
\* grant_type=authorization_code and the URL-encoded redirect_uri; client id
\* and client secret are in both.
C9_TokenRequestShape ==
    pc = "done" =>
        /\ TokenBodyCommon(ret.body)
        /\ IF arg.params.type = "refresh"
           THEN RefreshShape(ret.body)
           ELSE AuthCodeShape(ret.body)

\* C9 as amended: the same, except that the authorization-code request of the
\* Github provider carries no grant_type at all (code and URL-encoded
\* redirect_uri only, beside client id and secret).
C9_TokenRequestShapeAmended ==
    pc = "done" =>
        /\ TokenBodyCommon(ret.body)
        /\ IF arg.params.type = "refresh"
           THEN RefreshShape(ret.body)
           ELSE IF provider = "gitlab"
                THEN AuthCodeShape(ret.body)
                ELSE AuthCodeShapeNoGrant(ret.body)

\* An authorization-code request of the Github provider whose redirect URL
\* holds characters that must be escaped.
C9_Witness ==
    /\ pc = "done"
    /\ provider = "github"
    /\ arg.params.type = "auth"
    /\ arg.params.redirect_url = <<"/", "&">>
    /\ [name |-> "redirect_uri", value |-> <<"%2F", "%26">>] \in FormFields(ret.body)

(***************************************************************************)
(* The provider registry.                                                  *)
(***************************************************************************)
ProviderNames ==
    {"dropbox", "facebook", "google", "instagram", "spotify", "gitlab", "github"}

\* The default export of oauth-providers/index.
oAuth2Providers ==
    [dropbox |-> "DropboxAuthProvider",
     facebook |-> "FacebookAuthProvider",
     google |-> "GoogleAuthProvider",
     instagram |-> "InstagramAuthProvider",
     spotify |-> "SpotifyAuthProvider",
     gitlab |-> "GitlabAuthProvider"]

\* The registry that follows the GitlabAuthProvider class in gitlab.ts.
oAuth2ProvidersOfGitlabFile ==
    [dropbox |-> "DropboxAuthProvider",
     facebook |-> "FacebookAuthProvider",
     google |-> "GoogleAuthProvider",
     instagram |-> "InstagramAuthProvider",
     spotify |-> "SpotifyAuthProvider",
     gitlab |-> "GitlabAuthProvider",
     github |-> "GithubAuthProvider"]

RegistryOf(module) ==
    IF module = "index" THEN oAuth2Providers ELSE oAuth2ProvidersOfGitlabFile

InitRegistry ==
    /\ provider = "gitlab"
    /\ lookups = <<>>
    /\ IdleInstance
    /\ IdleFunction

\* oAuth2Providers[name], on the default export of `module`
Lookup(module, name) ==
    /\ Len(lookups) < MaxLookups
    /\ lookups' = Append(lookups,
                         [module |-> module, name |-> name,
                          class |-> Get(RegistryOf(module), name)])
    /\ UNCHANGED <<provider, config, calls, fetches, pc, arg, ret>>

NextRegistry == \E module \in {"index", "gitlab"}, name \in ProviderNames : Lookup(module, name)

SpecRegistry == InitRegistry /\ [][NextRegistry]_vars

\* The class each provider name stands for.
OwnClass(name) ==
    CASE name = "dropbox" -> "DropboxAuthProvider"
      [] name = "facebook" -> "FacebookAuthProvider"
      [] name = "google" -> "GoogleAuthProvider"
      [] name = "instagram" -> "InstagramAuthProvider"
      [] name = "spotify" -> "SpotifyAuthProvider"
      [] name = "gitlab" -> "GitlabAuthProvider"
      [] name = "github" -> "GithubAuthProvider"

\* C8: looking up each of the seven provider names in the default export of
\* oauth-providers/index yields that provider's own class, and no two names
\* yield the same class.
C8_RegistryComplete ==
    \A i \in 1..Len(lookups) :
        lookups[i].module = "index" =>
            /\ lookups[i].class = OwnClass(lookups[i].name)
            /\ \A j \in 1..Len(lookups) :
                 (lookups[j].module = "index" /\ lookups[j].class = lookups[i].class)
                     => lookups[j].name = lookups[i].name

(***************************************************************************)
(* One provider instance and the asynchronous calls made on it.  Each call *)
(* runs from one await to the next in one step; the steps of different     *)
(* calls interleave, as the promises of a single-threaded event loop do.   *)
(***************************************************************************)
CallIds == 1..MaxCalls

Ops(p) ==
    IF p = "gitlab"
    THEN {"init", "getAccessToken", "getUserInfo", "revokeAccess"}
    ELSE {"init", "getAccessToken", "getUserInfo"}

\* What the discovery endpoint may answer: the discovery document, a JSON
\* body that is none (sent with a non-success status), or nothing usable
\* (the fetch rejects, or the body is not JSON).
DiscoveryOutcomes == {"doc", "errdoc", "reject"}

\* config.<name> of the cached document.
Endpoint(cfg, name) == IF cfg = "doc" THEN name ELSE Undefined

\* A response: its HTTP status (0: the fetch rejected), whether the body
\* parses as JSON, and the parsed body.
NoResponse == [status |-> 0, json |-> FALSE, body |-> <<>>]

JsonResponse(st, b) == [status |-> st, json |-> TRUE, body |-> b]

TextResponse(st) == [status |-> st, json |-> FALSE, body |-> <<>>]

TokenOk == [access_token |-> "tok", expires_in |-> "3600"]
OAuthError == [error |-> "invalid_grant", error_description |-> "expired"]
UserOk == [sub |-> "u-1", id |-> "42", name |-> "Ann Lee", email |-> "ann@h"]

ServerFault == [message |-> "500 Internal Server Error"]
BadCredentials == [message |-> "Bad credentials"]

TokenResponses ==
    {JsonResponse(200, TokenOk), JsonResponse(200, OAuthError),
     JsonResponse(400, OAuthError), JsonResponse(500, ServerFault),
     TextResponse(502), NoResponse}

UserResponses ==
    {JsonResponse(200, UserOk), JsonResponse(200, OAuthError),
     JsonResponse(401, OAuthError), JsonResponse(401, BadCredentials),
     TextResponse(502), NoResponse}

RevokeResponses == {TextResponse(200), TextResponse(400), NoResponse}

Returned(v) == [ok |-> TRUE, value |-> v]
Thrown(msg) == [ok |-> FALSE, value |-> msg]
Pending == [ok |-> FALSE, value |-> <<>>]

RECURSIVE Join(_, _)
\* Array.prototype.join
Join(list, sep) ==
    IF Len(list) = 0 THEN <<>>
    ELSE IF Len(list) = 1 THEN <<list[1]>>
    ELSE <<list[1], sep>> \o Join(Tail(list), sep)

InstanceSettings ==
    [client_id |-> <<"app">>, client_secret |-> <<"s3cret">>,
     scopes |-> GitlabConstructor([scopes |-> None]).scopes.v]

InitInfo == [redirect_url |-> <<"a", "/">>, state |-> <<"x">>]

GitlabInitUrl(cfg, settings, info) ==
    <<Endpoint(cfg, "authorization_endpoint"),
      "?response_type=code&access_type=offline&include_granted_scopes=true&client_id=">>
        \o settings.client_id
        \o <<"&scope=">> \o encodeURIComponent(Join(settings.scopes, " "))
        \o <<"&redirect_uri=">> \o encodeURIComponent(info.redirect_url)
        \o <<"&state=">> \o encodeURIComponent(info.state)

GithubInitUrl(settings, info) ==
    <<"https://github.com/login/oauth/authorize?scope=">>
        \o encodeURIComponent(Join(settings.scopes, " "))
        \o <<"&client_id=">> \o settings.client_id
        \o <<"&state=">> \o encodeURIComponent(info.state)
        \o <<"&redirect_uri=">> \o encodeURIComponent(info.redirect_url)

\* result.expires = new Date(Date.now() + (secondsToExpiry * 1000))
WithExpires(body) ==
    [k \in DOMAIN body \cup {"expires"} |-> IF k = "expires" THEN "Date" ELSE body[k]]

\* `${error.error}: ${error.error_description}`
ErrorMessage(body) == <<Get(body, "error"), ": ", Get(body, "error_description")>>

\* getAccessToken from the response of the token endpoint on.
GitlabAccessTokenResult(resp) ==
    IF resp.status = 0 THEN Thrown(<<"fetch failed">>)
    ELSE IF ~resp.json THEN Thrown(<<"SyntaxError">>)
    ELSE IF Truthy(Get(resp.body, "error")) THEN Thrown(<<Get(resp.body, "error")>>)
    ELSE Returned(WithExpires(resp.body))

GithubAccessTokenResult(resp) ==
    IF resp.status = 0 THEN Thrown(<<"fetch failed">>)
    ELSE IF ~resp.json THEN Thrown(<<"SyntaxError">>)
    ELSE IF Truthy(Get(resp.body, "error")) THEN Thrown(<<Get(resp.body, "error")>>)
    ELSE Returned(resp.body)

\* getUserInfo from the response of the user-info endpoint on.
GitlabUserInfoResult(resp) ==
    IF resp.status = 0 THEN Thrown(<<"fetch failed">>)
    ELSE IF ~resp.json THEN Thrown(<<"SyntaxError">>)
    ELSE IF resp.status # 200 THEN Thrown(ErrorMessage(resp.body))
    ELSE Returned(GitlabProfile(resp.body))

GithubUserInfoResult(resp) ==
    IF resp.status = 0 THEN Thrown(<<"fetch failed">>)
    ELSE IF ~resp.json THEN Thrown(<<"SyntaxError">>)
    ELSE IF resp.status # 200 THEN Thrown(ErrorMessage(resp.body))
    ELSE Returned(GithubProfile(resp.body))

\* revokeAccess from the response of the revocation endpoint on.
GitlabRevokeResult(resp) ==
    IF resp.status = 0 THEN Thrown(<<"fetch failed">>)
    ELSE IF resp.status # 200 THEN Thrown(<<"Revoke failed, error ", resp.status>>)
    ELSE Returned(<<>>)

ConfigCachedNever(cfg) == FALSE

\* getOpenIDConfig: if (this._config) { return this._config; }
ConfigCached(cfg) == Truthy(cfg)

\* Calls are numbered in the order they are made.
IsNextCall(c) == \A d \in CallIds : d < c => calls[d].pc # "idle"

IdleCall ==
    [op |-> "none", pc |-> "idle", cached |-> FALSE, cfg |-> Undefined,
     issued |-> <<>>, resp |-> NoResponse, result |-> Pending]

Init ==
    /\ provider \in Providers
    /\ config = Undefined
    /\ calls = [c \in CallIds |-> IdleCall]
    /\ fetches = [k \in {"discovery", "token", "userinfo", "revoke"} |-> 0]
    /\ IdleFunction
    /\ IdleRegistry

\* The request a method sends once it has the configuration.
RequestOf(op) ==
    CASE op = "getAccessToken" -> "token"
      [] op = "getUserInfo" -> "userinfo"
      [] op = "revokeAccess" -> "revoke"

AwaitOf(op) ==
    CASE op = "getAccessToken" -> "awaitToken"
      [] op = "getUserInfo" -> "awaitUser"
      [] op = "revokeAccess" -> "awaitRevoke"

\* The call issues its endpoint request and suspends on it.
SendRequest(c, call) ==
    /\ calls' = [calls EXCEPT ![c] =
                    [call EXCEPT !.pc = AwaitOf(call.op),
                                 !.issued = Append(call.issued, RequestOf(call.op))]]
    /\ fetches' = [fetches EXCEPT ![RequestOf(call.op)] = @ + 1]

Finish(c, call, outcome) ==
    calls' = [calls EXCEPT ![c] =
                 [call EXCEPT !.pc = IF outcome.ok THEN "done" ELSE "failed",
                              !.result = outcome]]

\* A method of the Gitlab provider is called: it runs into getOpenIDConfig,
\* which returns the cached document or fetches it and suspends.
GitlabCall(c, op) ==
    /\ provider = "gitlab"
    /\ calls[c].pc = "idle"
    /\ IsNextCall(c)
    /\ op \in Ops("gitlab")
    /\ LET call == [calls[c] EXCEPT !.op = op, !.cached = Truthy(config)]
       IN  IF ConfigCached(config)
           THEN /\ calls' = [calls EXCEPT ![c] =
                                [call EXCEPT !.pc = "haveConfig", !.cfg = config]]
                /\ UNCHANGED fetches
           ELSE /\ calls' = [calls EXCEPT ![c] =
                                [call EXCEPT !.pc = "awaitDiscovery",
                                             !.issued = <<"discovery">>]]
                /\ fetches' = [fetches EXCEPT !.discovery = @ + 1]
    /\ UNCHANGED <<provider, config, pc, arg, ret, lookups>>

\* The discovery fetch of call c settles:
\* this._config = await fetch(...).then(res => res.json()); return this._config;
DiscoveryResponds(c, outcome) ==
    /\ calls[c].pc = "awaitDiscovery"
    /\ outcome \in DiscoveryOutcomes
    /\ IF outcome = "reject"
       THEN /\ Finish(c, calls[c], Thrown(<<"fetch failed">>))
            /\ UNCHANGED config
       ELSE /\ config' = outcome
            /\ calls' = [calls EXCEPT ![c] =
                            [calls[c] EXCEPT !.pc = "haveConfig", !.cfg = outcome]]
    /\ UNCHANGED <<provider, fetches, pc, arg, ret, lookups>>

\* The call resumes after `const config = await this.getOpenIDConfig()`.
GitlabResume(c) ==
    /\ calls[c].pc = "haveConfig"
    /\ IF calls[c].op = "init"
       THEN /\ Finish(c, calls[c],
                      Returned(GitlabInitUrl(calls[c].cfg, InstanceSettings, InitInfo)))
            /\ UNCHANGED fetches
       ELSE SendRequest(c, calls[c])
    /\ UNCHANGED <<provider, config, pc, arg, ret, lookups>>

\* A method of the Github provider is called: init returns at once, the
\* others send their request and suspend.
GithubCall(c, op) ==
    /\ provider = "github"
    /\ calls[c].pc = "idle"
    /\ IsNextCall(c)
    /\ op \in Ops("github")
    /\ LET call == [calls[c] EXCEPT !.op = op]
       IN  IF op = "init"
           THEN /\ Finish(c, call, Returned(GithubInitUrl(InstanceSettings, InitInfo)))
                /\ UNCHANGED fetches
           ELSE SendRequest(c, call)
    /\ UNCHANGED <<provider, config, pc, arg, ret, lookups>>

TokenResponds(c, resp) ==
    /\ calls[c].pc = "awaitToken"
    /\ resp \in TokenResponses
    /\ Finish(c, [calls[c] EXCEPT !.resp = resp],
              IF provider = "gitlab" THEN GitlabAccessTokenResult(resp)
              ELSE GithubAccessTokenResult(resp))
    /\ UNCHANGED <<provider, config, fetches, pc, arg, ret, lookups>>

UserInfoResponds(c, resp) ==
    /\ calls[c].pc = "awaitUser"
    /\ resp \in UserResponses
    /\ Finish(c, [calls[c] EXCEPT !.resp = resp],
              IF provider = "gitlab" THEN GitlabUserInfoResult(resp)
              ELSE GithubUserInfoResult(resp))
    /\ UNCHANGED <<provider, config, fetches, pc, arg, ret, lookups>>

RevokeResponds(c, resp) ==
    /\ calls[c].pc = "awaitRevoke"
    /\ resp \in RevokeResponses
    /\ Finish(c, [calls[c] EXCEPT !.resp = resp], GitlabRevokeResult(resp))
    /\ UNCHANGED <<provider, config, fetches, pc, arg, ret, lookups>>

Next ==
    \E c \in CallIds :
        \/ \E op \in Ops("gitlab") : GitlabCall(c, op)
        \/ \E outcome \in DiscoveryOutcomes : DiscoveryResponds(c, outcome)
        \/ GitlabResume(c)
        \/ \E op \in Ops("github") : GithubCall(c, op)
        \/ \E resp \in TokenResponses : TokenResponds(c, resp)
        \/ \E resp \in UserResponses : UserInfoResponds(c, resp)
        \/ \E resp \in RevokeResponses : RevokeResponds(c, resp)

Spec == Init /\ [][Next]_vars

Finished(c) == calls[c].pc \in {"done", "failed"}

\* C1: the OpenID discovery document is fetched from the network at most once
\* during the lifetime of the instance, whatever the interleaving of its calls.
C1_DiscoveryFetchedOnce == fetches.discovery <= 1

\* C2 as claimed: a call to init issues no network request.
C2_InitNoFetch == \A c \in CallIds : calls[c].op = "init" => calls[c].issued = <<>>

\* C2 as amended: init of the Github provider issues no network request; init
\* of the Gitlab provider issues none when the instance holds a cached
\* discovery document at the time of the call, and otherwise exactly one, the
\* fetch of the discovery document.
C2_InitFetchesOnlyDiscovery ==
    \A c \in CallIds :
        calls[c].op = "init" =>
            calls[c].issued = IF provider = "gitlab" /\ ~calls[c].cached
                              THEN <<"discovery">>
                              ELSE <<>>

\* Two init calls on one Gitlab instance have returned: the first fetched the
\* discovery document, the second found it cached and fetched nothing.
C2_Witness ==
    /\ provider = "gitlab"
    /\ \E c, d \in CallIds :
         /\ calls[c].op = "init" /\ calls[c].pc = "done"
         /\ calls[c].issued = <<"discovery">>
         /\ calls[d].op = "init" /\ calls[d].pc = "done"
         /\ calls[d].cached /\ calls[d].issued = <<>>

SuccessStatus(st) == st \in 200..299

HasErrorField(resp) == resp.json /\ "error" \in DOMAIN resp.body

\* C3: getAccessToken fails, returning no token, whenever the response of the
\* token endpoint has a non-success status or its body carries an error field;
\* it returns a token only for a success status and a body without error.
C3_TokenFailsOnErrorResponse ==
    \A c \in CallIds :
        (calls[c].op = "getAccessToken" /\ Finished(c) /\ calls[c].resp.status # 0) =>
            LET bad == ~SuccessStatus(calls[c].resp.status) \/ HasErrorField(calls[c].resp)
            IN  /\ bad => (calls[c].pc = "failed" /\ ~calls[c].result.ok)
                /\ calls[c].pc = "done" => ~bad

\* C4: getUserInfo never returns a profile when the user-info response has a
\* non-success status or carries an error payload; it fails, and the error
\* carries the error code and description of an error payload; a profile is
\* returned only for a success response without error payload.
C4_UserInfoFailsOnErrorResponse ==
    \A c \in CallIds :
        (calls[c].op = "getUserInfo" /\ Finished(c) /\ calls[c].resp.status # 0) =>
            LET bad == ~SuccessStatus(calls[c].resp.status) \/ HasErrorField(calls[c].resp)
            IN  /\ bad => (calls[c].pc = "failed" /\ ~calls[c].result.ok)
                /\ HasErrorField(calls[c].resp) =>
                     calls[c].result.value =
                        <<calls[c].resp.body["error"], ": ",
                          Get(calls[c].resp.body, "error_description")>>
                /\ calls[c].pc = "done" => ~bad

(***************************************************************************)
(* GET /info/<dbname>.                                                     *)
(***************************************************************************)
sPerMinute == 60
sPerHour == sPerMinute * 60
sPerDay == sPerHour * 24

\* numberToTime: `${days}d${hours}h${minutes}m${seconds}s`
numberToTime(number) ==
    LET days == number \div sPerDay
        n1 == number - sPerDay * days
        hours == n1 \div sPerHour
        n2 == n1 - hours * sPerHour
        minutes == n2 \div sPerMinute
        n3 == n2 - minutes * sPerMinute
        seconds == n3
    IN  <<days, "d", hours, "h", minutes, "m", seconds, "s">>

\* numberToByteSize: Math.round((number / 1024 / 1024) * 100) / 100 + 'MB',
\* kept in hundredths of a megabyte.
numberToByteSize(number) ==
    <<(number * 100 * 2 + 1024 * 1024) \div (2 * 1024 * 1024), "/100", "MB">>

\* What the os and process modules report on the host at hand (a host small
\* enough for the arithmetic above to stay within 32 bits).
HostTotalMem == 8 * 1024 * 1024
HostFreeMem == 3 * 1024 * 1024 + 300 * 1024
DbName == "mydb"

\* The users a request may be bound to: none (no bearer token), the
\* administrator, or another account.
RequestUsers ==
    {None} \cup {Some([uid |-> u]) : u \in {"admin", "alice", "Admin", "administrator", ""}}

\* os.uptime() in seconds.
Uptimes ==
    {d * sPerDay + h * sPerHour + m * sPerMinute + sec :
        d \in 0..MaxUnit, h \in 0..MaxUnit, m \in 0..MaxUnit, sec \in 0..MaxUnit}

AnyUser(req) == req.user.def

\* if (req.user && req.user.uid === 'admin')
IsAdminRequest(req) == req.user.def /\ req.user.v.uid = "admin"

BaseInfo == [version |-> "meta.version", time |-> "Date.now()", process |-> "process.pid"]

AdminInfo(uptime) ==
    [dbname |-> DbName,
     platform |-> "os.platform()",
     arch |-> "os.arch()",
     release |-> "os.release()",
     host |-> "os.hostname()",
     uptime |-> numberToTime(uptime),
     load |-> "os.loadavg()",
     mem |-> [total |-> numberToByteSize(HostTotalMem),
              free |-> numberToByteSize(HostFreeMem),
              process |-> "process.memoryUsage()"],
     cpus |-> "os.cpus()",
     network |-> "os.networkInterfaces()"]

\* Object.assign(info, adminInfo)
Assign(info, more) ==
    [k \in DOMAIN info \cup DOMAIN more |-> IF k \in DOMAIN more THEN more[k] ELSE info[k]]

\* The handler of GET /info/<dbname>: the body it sends.
InfoResponse(req, uptime) ==
    IF IsAdminRequest(req) THEN Assign(BaseInfo, AdminInfo(uptime)) ELSE BaseInfo

InitInfoRoute ==
    /\ provider = "gitlab"
    /\ pc = "ready"
    /\ arg \in {[req |-> [user |-> u], uptime |-> t] : u \in RequestUsers, t \in Uptimes}
    /\ ret = <<>>
    /\ IdleInstance
    /\ IdleRegistry

\* env.app.get(`/info/${env.db.name}`, (req, res) => { ...; res.send(info); })
GetInfo ==
    /\ pc = "ready"
    /\ ret' = InfoResponse(arg.req, arg.uptime)
    /\ pc' = "done"
    /\ UNCHANGED <<provider, config, calls, fetches, arg, lookups>>

NextInfoRoute == GetInfo

SpecInfoRoute == InitInfoRoute /\ [][NextInfoRoute]_vars

HostDetailKeys ==
    {"dbname", "platform", "arch", "release", "host", "uptime", "load", "mem", "cpus",
     "network"}

\* C11: the response of GET /info/<dbname> contains host and process details
\* only if the user bound to the request has uid 'admin'; for an anonymous
\* request or any other user it contains exactly version, time and process.
C11_HostDetailsAdminOnly ==
    pc = "done" =>
        LET admin == arg.req.user.def /\ arg.req.user.v.uid = "admin"
        IN  /\ (DOMAIN ret \cap HostDetailKeys # {}) => admin
            /\ ~admin => DOMAIN ret = {"version", "time", "process"}

\* A signed-in user who is not the administrator has been answered.
C11_Witness ==
    /\ pc = "done"
    /\ arg.req.user.def
    /\ arg.req.user.v.uid = "alice"
    /\ DOMAIN ret = {"version", "time", "process"}

\* The discovery fetch of call c has settled without a discovery document:
\* it rejected or did not parse (the call failed before any other request),
\* or it brought the JSON body of a non-success response.
DiscoveryFailed(c) ==
    /\ calls[c].issued # <<>>
    /\ calls[c].issued[1] = "discovery"
    /\ \/ calls[c].pc = "failed" /\ Len(calls[c].issued) = 1
       \/ calls[c].cfg = "errdoc"

DiscoverySucceeded(c) ==
    /\ calls[c].issued # <<>>
    /\ calls[c].issued[1] = "discovery"
    /\ calls[c].cfg = "doc"

\* C12: only a successfully retrieved discovery document is ever cached: a
\* discovery fetch that rejects, fails to parse or returns a non-success
\* response leaves the cached config unset and fails the call that made it,
\* and a call made while no document was retrieved fetches it again.
C12_OnlySuccessfulDocumentCached ==
    /\ config \in {Undefined, "doc"}
    /\ (\A c \in CallIds : ~DiscoverySucceeded(c)) => config = Undefined
    /\ \A c \in CallIds : DiscoveryFailed(c) => calls[c].pc = "failed"
    /\ \A c \in CallIds :
         (calls[c].op # "none" /\ provider = "gitlab" /\ ~calls[c].cached)
             => (calls[c].issued # <<>> /\ calls[c].issued[1] = "discovery")

=============================================================================
